---- MODULE Spec2Model ----
(***************************************************************************)
(* SplatToolsOSS: the planar editor (hooks/useEditor, EditorPage,          *)
(* CanvasPlayer) and the 360 editor (hooks/useEditor360, Editor360Content, *)
(* CanvasPlayer360, Timeline360) as one state machine over the shared      *)
(* HTMLVideoElement.                                                       *)
(*                                                                         *)
(* Time is counted in ticks of 1/12 s: every sample time i * (1 / fps) of  *)
(* the sample rates 3, 6 and 12 is a whole number of ticks.  Two positions *)
(* that differ by one tick differ by 0.083 s, more than the 0.05 s the     *)
(* players' seek effects ignore, so "differs by more than 0.05 s" is "/=". *)
(* Variances are whole numbers (Math.round is then the identity on them).  *)
(* A view's yaw is counted in units of 1/360360 degree, so that the angle  *)
(* step 360 / frameCount is a whole number for every frame count 1..13;    *)
(* pitch and fov are in degrees.  A query-string value is the sequence of  *)
(* its characters.                                                         *)
(***************************************************************************)
EXTENDS Integers, Sequences, FiniteSets, TLC

\* ------------------------------------------------------------------ bounds
MaxDur == 2          \* longest video of a session, in ticks
MaxSamples == 4      \* most samples in the frameData an export starts from
MaxRanges == 2       \* most ranges a session creates on the timeline
MaxWidth == 4        \* widest canvas handed to the scoring, in pixels
MaxHeight == 3       \* tallest canvas handed to the scoring, in pixels

\* --------------------------------------------------------------- constants
TicksPerSec == 12
SampleRates == {3, 6, 12}
Infinity == 1000000  \* the value of n / 0 in Math.round((n / 0) * 100)
DefaultThreshold == 300
DefaultFps == 6
Deg == 360360        \* one degree of yaw, in units of 1/360360 degree
NaN == -1000000      \* the number NaN (parseInt / parseFloat of text that is no number)
PosPerTick == 5      \* timeline positions and range ends count 1/60 s: 5 to a tick
MinRangeLength == 6  \* the 0.1 of handleMouseUp's `end - start > 0.1`, in 1/60 s
NoRange == 0         \* selectedRangeId: null
NoTime == -1         \* rangeCreationStart, tempRangeEnd: null

VARIABLES
    \* which page is open: "planar" (/editor) or "360" (/editor360)
    editor,
    \* React state of the hook (useEditor / useEditor360)
    videoSrc, isPlaying, currentTime, isProcessing, progress, fps,
    frameData, threshold, ranges,                 \* useEditor only
    selectedRangeId,                              \* useEditor only
    \* React state of the Timeline component
    isCreatingRange, rangeCreationStart, tempRangeEnd,
    \* the canvas the scoring reads, and what computeLaplacianVariance gave for it
    canvas, variance,
    editorMode, customConfig, frameViews, activeFrameViewId,  \* useEditor360 only
    is360ModeEnabled, detection360Result,                     \* useEditor360 only
    videoWidth, videoHeight,
    \* the /editor360 page
    url,                  \* the query string (useSearchParams): mode, frames, pitch, angle, fov
    initialized,          \* initializedRef.current
    \* the HTMLVideoElement
    duration,             \* video.duration, in ticks
    vTime,                \* video.currentTime
    vPaused,              \* video.paused
    vSeeking,             \* video.seeking: a seek was issued and 'seeked' has not fired yet
    \* the running async function (runAnalysis, runMultiViewAnalysis, handleDownload)
    pc,                   \* "idle" | "awaitSeek" | "yield"
    runKind,              \* "none" | "analysis" | "multiview" | "export" | "export360"
    idx,                  \* loop variable: i, frameIdx, or the index into sharpFrames
    results,              \* runAnalysis: local results[]
    originalTime,         \* const originalTime = video.currentTime
    runFps, totalFrames,  \* state.fps as captured by the callback; totalFrames
    sharpFrames,          \* handleDownload: local sharpFrames
    zip,                  \* handleDownload: the paths in the JSZip archive
    \* what the run reported
    runResult,            \* the promise of the async function: "none" | "pending" | "resolved" | "rejected"
    errorLogged,          \* console.error ran in the catch block of the last run
    alerted,              \* alert(...) was shown by the last run
    saved,                \* saveAs(...) delivered the archive of the last run
    \* history
    hadData,              \* the last analysis run started over earlier frameData
    userChoice,           \* the argument of the last set360ModeEnabled call, "none" before the first
    discarded,            \* the last regeneration of the views replaced views that held data
    rangeCount,           \* how many ids generateRangeId has given out
    readFrame             \* position of the frame the scoring just read

vars == <<editor, videoSrc, isPlaying, currentTime, isProcessing, progress, fps,
          frameData, threshold, ranges, editorMode, customConfig, frameViews,
          activeFrameViewId, is360ModeEnabled, detection360Result, videoWidth,
          videoHeight, url, initialized, userChoice, discarded, duration, vTime, vPaused, vSeeking, pc, runKind,
          idx, results, originalTime, runFps, totalFrames, sharpFrames, zip,
          runResult, errorLogged, alerted, saved, hadData, readFrame,
          selectedRangeId, isCreatingRange, rangeCreationStart, tempRangeEnd,
          rangeCount, canvas, variance>>

timelineVars == <<selectedRangeId, isCreatingRange, rangeCreationStart, tempRangeEnd,
                  rangeCount>>
scorerVars == <<canvas, variance>>
configVars == <<editor, videoSrc, fps, threshold, ranges, editorMode, customConfig,
                activeFrameViewId, is360ModeEnabled, detection360Result, videoWidth,
                videoHeight, url, initialized, userChoice, discarded, timelineVars,
                scorerVars>>
videoVars == <<duration, vTime, vPaused, vSeeking>>
runVars == <<pc, runKind, idx, results, originalTime, runFps, totalFrames,
             sharpFrames, zip, runResult, errorLogged, alerted, saved, hadData,
             readFrame>>

Min(a, b) == IF a < b THEN a ELSE b
Max(a, b) == IF a > b THEN a ELSE b

\* ------------------------------------------------------------ arithmetic
\* const interval = 1 / state.fps
Interval(f) == TicksPerSec \div f
\* const totalFrames = Math.floor(duration * state.fps)
TotalFrames(d, f) == (d * f) \div TicksPerSec
\* Math.round(a / b) for a >= 0, b > 0 (halves round up)
RoundDiv(a, b) == (2 * a + b) \div (2 * b)
\* Math.round((n / total) * 100)
ProgressOf(n, total) == IF total = 0 THEN Infinity ELSE RoundDiv(n * 100, total)

\* The loaded video's content: the Laplacian variance of the frame decoded at
\* position p (computeLaplacianVariance of the drawn frame) ...
FrameVariance(p) == IF p % 2 = 0 THEN 400 ELSE 100
\* ... and of the j-th view extracted from it (extractCubemapFace or
\* extractPerspectiveView, then computeLaplacianVariance).
ViewVariance(p, j) == FrameVariance(p + j + 1)

\* ------------------------------------------------------- numbers, text
Abs(a) == IF a < 0 THEN -a ELSE a
\* a % b of JavaScript for whole a and b > 0: the sign of the dividend
JsRem(a, b) == IF a >= 0 THEN a % b ELSE -((-a) % b)

DigitChars == <<"0", "1", "2", "3", "4", "5", "6", "7", "8", "9">>
IsDigit(c) == \E d \in 1..10 : DigitChars[d] = c
DigitOf(c) == (CHOOSE d \in 1..10 : DigitChars[d] = c) - 1
RECURSIVE LeadingDigits(_)
LeadingDigits(s) ==
    IF s = <<>> \/ ~IsDigit(Head(s)) THEN <<>>
    ELSE <<Head(s)>> \o LeadingDigits(Tail(s))
RECURSIVE DigitsValue(_)
DigitsValue(ds) ==
    IF ds = <<>> THEN 0
    ELSE 10 * DigitsValue(SubSeq(ds, 1, Len(ds) - 1)) + DigitOf(ds[Len(ds)])
\* parseInt(s, 10): an optional sign, then the digits up to the first other
\* character; NaN when there is no digit
parseInt(s) ==
    LET signed == s /= <<>> /\ Head(s) \in {"-", "+"}
        ds == LeadingDigits(IF signed THEN Tail(s) ELSE s)
    IN IF ds = <<>> THEN NaN
       ELSE IF signed /\ Head(s) = "-" THEN -DigitsValue(ds) ELSE DigitsValue(ds)
\* parseFloat(s) of text without fraction and exponent reads what parseInt reads
parseFloat(s) == parseInt(s)
RECURSIVE NatToString(_)
NatToString(n) ==
    IF n < 10 THEN <<DigitChars[n + 1]>>
    ELSE NatToString(n \div 10) \o <<DigitChars[(n % 10) + 1]>>
\* a toString that loses the sign
NumberToStringUnsigned(n) ==
    IF n = NaN THEN <<"N", "a", "N">> ELSE NatToString(Abs(n))
\* Number.prototype.toString of a whole number or NaN
NumberToString(n) ==
    IF n = NaN THEN <<"N", "a", "N">>
    ELSE IF n < 0 THEN <<"-">> \o NatToString(-n) ELSE NatToString(n)

\* ------------------------------------------------------- 360 detection
common360Widths == {7680, 5760, 4096, 3840, 2880, 2048, 1920}
\* Math.abs(aspectRatio - 2.0) < 0.05 in double arithmetic: aspectRatio - 2.0
\* is exact; a ratio of exactly 2.05 is rounded to a double below 2.05 and
\* passes, a ratio of exactly 1.95 is rounded to a double below 1.95 and fails
is2to1(w, h) ==
    h > 0 /\ (20 * Abs(w - 2 * h) < h \/ 20 * (w - 2 * h) = h)
isCommon360Resolution(w, h) ==
    \E cw \in common360Widths : Abs(w - cw) < 100 /\ Abs(h - cw \div 2) < 50
\* detection360Result: null
NoDetection == [is360 |-> FALSE, confidence |-> "null"]
detect360Video(w, h) ==
    IF is2to1(w, h) /\ isCommon360Resolution(w, h)
    THEN [is360 |-> TRUE, confidence |-> "high"]
    ELSE IF is2to1(w, h)
    THEN [is360 |-> TRUE, confidence |-> "medium"]
    ELSE IF h > 0 /\ 10 * w >= 19 * h /\ 10 * w <= 21 * h
    THEN [is360 |-> TRUE, confidence |-> "low"]
    ELSE [is360 |-> FALSE, confidence |-> "high"]

\* ------------------------------------------------------------ 360 views
CUBEMAP_FACES ==
    << [face |-> "pz", name |-> "Front",  yaw |-> 0,   pitch |-> 0],
       [face |-> "px", name |-> "Right",  yaw |-> 90,  pitch |-> 0],
       [face |-> "nz", name |-> "Back",   yaw |-> 180, pitch |-> 0],
       [face |-> "nx", name |-> "Left",   yaw |-> 270, pitch |-> 0],
       [face |-> "py", name |-> "Top",    yaw |-> 0,   pitch |-> 90],
       [face |-> "ny", name |-> "Bottom", yaw |-> 0,   pitch |-> -90] >>

\* `skybox_${face}` and `${face.toUpperCase()} (${name})`
SkyboxId == [pz |-> "skybox_pz", px |-> "skybox_px", nz |-> "skybox_nz",
             nx |-> "skybox_nx", py |-> "skybox_py", ny |-> "skybox_ny"]
SkyboxName == [pz |-> "PZ (Front)", px |-> "PX (Right)", nz |-> "NZ (Back)",
               nx |-> "NX (Left)", py |-> "PY (Top)", ny |-> "NY (Bottom)"]
\* `custom_${i}` and `View ${i + 1}`, i = 0..12
CustomId == << "custom_0", "custom_1", "custom_2", "custom_3", "custom_4", "custom_5",
               "custom_6", "custom_7", "custom_8", "custom_9", "custom_10", "custom_11",
               "custom_12" >>
CustomName == << "View 1", "View 2", "View 3", "View 4", "View 5", "View 6",
                 "View 7", "View 8", "View 9", "View 10", "View 11", "View 12",
                 "View 13" >>

DEFAULT_CUSTOM_CONFIG == [frameCount |-> 4, rigPitch |-> 0, startAngle |-> 0, fov |-> 90]

createSkyboxFrameViews ==
    [j \in 1..Len(CUBEMAP_FACES) |->
        [id |-> SkyboxId[CUBEMAP_FACES[j].face],
         name |-> SkyboxName[CUBEMAP_FACES[j].face],
         face |-> CUBEMAP_FACES[j].face,
         yaw |-> CUBEMAP_FACES[j].yaw * Deg,
         pitch |-> CUBEMAP_FACES[j].pitch,
         fov |-> 90,
         frameData |-> <<>>,
         threshold |-> DefaultThreshold,
         ranges |-> {}]]

\* const angleStep = 360 / frameCount; for (let i = 0; i < frameCount; i++)
\* { const yaw = (startAngle + i * angleStep) % 360; ... }.  No pass is made
\* for a frameCount of 0, below 0 or NaN; NaN + x and NaN % x are NaN.
generateCustomViews(frameCount, rigPitch, startAngle, fov) ==
    IF frameCount = NaN \/ frameCount <= 0 THEN <<>>
    ELSE [j \in 1..frameCount |->
            [name |-> CustomName[j],
             yaw |-> IF startAngle = NaN THEN NaN
                     ELSE JsRem(startAngle * Deg + (j - 1) * ((360 * Deg) \div frameCount),
                                360 * Deg),
             pitch |-> rigPitch,
             fov |-> fov]]

createCustomFrameViews(config) ==
    LET views == generateCustomViews(config.frameCount, config.rigPitch,
                                     config.startAngle, config.fov)
    IN [j \in 1..Len(views) |->
        [id |-> CustomId[j],
         name |-> views[j].name,
         face |-> "none",
         yaw |-> views[j].yaw,
         pitch |-> views[j].pitch,
         fov |-> views[j].fov,
         frameData |-> <<>>,
         threshold |-> DefaultThreshold,
         ranges |-> {}]]

\* newFrameViews[0]?.id || fallback
FirstIdOr(views, fallback) == IF Len(views) > 0 THEN views[1].id ELSE fallback
\* setEditorMode: the views of the mode set
ViewsOfMode(mode, config) ==
    IF mode = "skybox" THEN createSkyboxFrameViews ELSE createCustomFrameViews(config)
\* setCustomConfig: { ...prev.customConfig, ...config }; config holds some of the keys
MergeConfig(prev, config) ==
    [k \in DOMAIN prev |-> IF k \in DOMAIN config THEN config[k] ELSE prev[k]]
\* a setCustomConfig that carries the data of the views there were over to the
\* new views
ViewsKeepData(mode, views, newConfig) ==
    IF mode = "custom"
    THEN LET new == createCustomFrameViews(newConfig)
         IN [j \in 1..Len(new) |->
                IF j <= Len(views)
                THEN [new[j] EXCEPT !.frameData = views[j].frameData,
                                    !.ranges = views[j].ranges,
                                    !.threshold = views[j].threshold]
                ELSE new[j]]
    ELSE views
\* setCustomConfig: the views afterwards
ViewsOfConfig(mode, views, newConfig) ==
    IF mode = "custom" THEN createCustomFrameViews(newConfig) ELSE views

\* ----------------------------------------------------- projection
\* Math.cos and Math.sin of a whole number of right angles, in degrees
CosDeg(a) == CASE a % 360 = 0 -> 1 [] a % 360 = 90 -> 0 [] a % 360 = 180 -> -1
               [] a % 360 = 270 -> 0
SinDeg(a) == CASE a % 360 = 0 -> 0 [] a % 360 = 90 -> 1 [] a % 360 = 180 -> 0
               [] a % 360 = 270 -> -1
\* extractCubemapFace: the direction of the centre pixel (nx = ny = 0) of a face
CubemapCentreRay(face) ==
    CASE face = "pz" -> <<0, 0, 1>>
      [] face = "nz" -> <<0, 0, -1>>
      [] face = "px" -> <<1, 0, 0>>
      [] face = "nx" -> <<-1, 0, 0>>
      [] face = "py" -> <<0, 1, 0>>
      [] face = "ny" -> <<0, -1, 0>>
\* extractPerspectiveView: the ray of the centre pixel (dx = dy = 0, so the
\* normalised ray is (0, 0, 1)) rotated by pitch about X, then by yaw about Y;
\* yaw in units of 1 / Deg degree, pitch in degrees
PerspectiveCentreRay(yaw, pitch) ==
    LET rayX == 0
        rayY == 0
        rayZ == 1
        cosPitch == CosDeg(pitch)
        sinPitch == SinDeg(pitch)
        tempY == rayY * cosPitch - rayZ * sinPitch
        tempZ == rayY * sinPitch + rayZ * cosPitch
        cosYaw == CosDeg(yaw \div Deg)
        sinYaw == SinDeg(yaw \div Deg)
        finalX == rayX * cosYaw + tempZ * sinYaw
        finalZ == -rayX * sinYaw + tempZ * cosYaw
    IN <<finalX, tempY, finalZ>>

\* some view holds analysis data, a range or a threshold of its own
HoldData(views) ==
    \E j \in 1..Len(views) :
        \/ views[j].frameData /= <<>>
        \/ views[j].ranges /= {}
        \/ views[j].threshold /= DefaultThreshold

\* ------------------------------------------------------ query string
\* The query string as the values searchParams.get returns for the five keys
\* the page reads; "" and <<>> stand for null and for the empty text, which
\* the page treats alike.
EmptyQuery == [mode |-> "", frames |-> <<>>, pitch |-> <<>>, angle |-> <<>>, fov |-> <<>>]
\* parseUrlConfig: result.mode ("" when not set) ...
parseUrlMode(q) == IF q.mode = "skybox" \/ q.mode = "custom" THEN q.mode ELSE ""
\* ... and result.config, with the keys whose parameter is present (no key:
\* result.config is not set)
parseUrlConfig(q) ==
    LET keys == {k \in {"frameCount", "rigPitch", "startAngle", "fov"} :
                    (CASE k = "frameCount" -> q.frames
                       [] k = "rigPitch" -> q.pitch
                       [] k = "startAngle" -> q.angle
                       [] OTHER -> q.fov) /= <<>>}
    IN [k \in keys |->
          CASE k = "frameCount" -> parseInt(q.frames)
            [] k = "rigPitch" -> parseFloat(q.pitch)
            [] k = "startAngle" -> parseFloat(q.angle)
            [] OTHER -> parseFloat(q.fov)]
generateUrlParams(mode, config) ==
    IF mode = "custom"
    THEN [mode |-> mode,
          frames |-> NumberToString(config.frameCount),
          pitch |-> NumberToString(config.rigPitch),
          angle |-> NumberToString(config.startAngle),
          fov |-> NumberToString(config.fov)]
    ELSE [EmptyQuery EXCEPT !.mode = mode]
\* The page's second effect: once initialised, router.replace puts
\* generateUrlParams of the state in the address whenever it differs
SyncedUrl(mode, config) ==
    IF initialized THEN generateUrlParams(mode, config) ELSE url

\* ----------------------------------------------------- the video element
\* video.currentTime = t: starts a seek (an earlier unconfirmed seek is
\* superseded; one 'seeked' event then confirms the latest target).
SeekTo(t) ==
    /\ vTime' = t
    /\ vSeeking' = TRUE

\* The players' seek effect (deps [currentTime, isPlaying]): runs after a commit
\* that changed one of them.
SeekEffect(newPlaying, newTime) ==
    IF (newPlaying /= isPlaying \/ newTime /= currentTime)
       /\ ~newPlaying /\ vTime /= newTime
    THEN SeekTo(newTime)
    ELSE UNCHANGED <<vTime, vSeeking>>

\* ------------------------------------------------------------------ Init
\* initialState of useEditor / useEditor360, no video imported yet
\* selectedRangeId: null, and the Timeline's useState(false) / useState(null)
InitTimeline ==
    /\ selectedRangeId = NoRange
    /\ isCreatingRange = FALSE
    /\ rangeCreationStart = NoTime
    /\ tempRangeEnd = NoTime
    /\ rangeCount = 0

\* the canvas element before anything was drawn, and no score computed
BlankCanvas == [width |-> 0, height |-> 0, data |-> <<>>]
NoScore == [kind |-> "none"]
InitScorer ==
    /\ canvas = BlankCanvas
    /\ variance = NoScore

InitSession ==
    /\ videoSrc = FALSE
    /\ isPlaying = FALSE
    /\ currentTime = 0
    /\ isProcessing = FALSE
    /\ progress = 0
    /\ fps = DefaultFps
    /\ frameData = <<>>
    /\ threshold = DefaultThreshold
    /\ ranges = {}
    /\ editorMode = "skybox"
    /\ customConfig = DEFAULT_CUSTOM_CONFIG
    /\ frameViews = IF editor = "360" THEN createSkyboxFrameViews ELSE <<>>
    /\ activeFrameViewId = IF editor = "360" THEN "skybox_pz" ELSE "none"
    /\ is360ModeEnabled = TRUE
    /\ detection360Result = NoDetection
    /\ videoWidth = 0
    /\ videoHeight = 0
    /\ userChoice = "none"
    /\ discarded = FALSE
    /\ InitTimeline

\* the <video> element without a source
NoVideo ==
    /\ duration = 0
    /\ vTime = 0
    /\ vPaused = TRUE
    /\ vSeeking = FALSE

InitVideo ==
    /\ NoVideo
    /\ InitScorer

InitRun ==
    /\ pc = "idle"
    /\ runKind = "none"
    /\ idx = 0
    /\ results = <<>>
    /\ originalTime = 0
    /\ runFps = 0
    /\ totalFrames = 0
    /\ sharpFrames = <<>>
    /\ zip = {}
    /\ runResult = "none"
    /\ errorLogged = FALSE
    /\ alerted = FALSE
    /\ saved = FALSE
    /\ hadData = FALSE
    /\ readFrame = 0

\* The page is open with no parameters in the address; the 360 page has run
\* its effects (nothing to apply, the address now names the mode).
Init ==
    /\ editor \in {"planar", "360"}
    /\ initialized = (editor = "360")
    /\ url = IF editor = "360" THEN generateUrlParams("skybox", DEFAULT_CUSTOM_CONFIG)
             ELSE EmptyQuery
    /\ InitSession
    /\ InitVideo
    /\ InitRun

\* --------------------------------------------------------- user actions
\* loadVideo(file), then the element's loadedmetadata handler (onVideoLoaded
\* and the seek to the first frame).  The import button is disabled while
\* isProcessing.  useEditor.loadVideo writes the keys splits and
\* selectedRange, which are no part of the state: ranges stay.
\* useEditor360.onVideoLoaded also runs detect360Video and sets is360ModeEnabled.
LoadVideoOf(sizes) ==
    /\ ~isProcessing
    /\ editor = "360" => initialized
    /\ \E d \in 1..MaxDur :
        /\ duration' = d
        /\ videoSrc' = TRUE
        /\ progress' = 0
        /\ currentTime' = 0
        /\ vPaused' = TRUE
        /\ SeekTo(0)
    /\ \E size \in sizes :
        /\ videoWidth' = size[1]
        /\ videoHeight' = size[2]
        /\ IF editor = "360"
           THEN /\ detection360Result' = detect360Video(size[1], size[2])
                /\ is360ModeEnabled' = detection360Result'.is360
           ELSE UNCHANGED <<detection360Result, is360ModeEnabled>>
    /\ frameData' = <<>>
    /\ frameViews' = [j \in 1..Len(frameViews) |->
                        [frameViews[j] EXCEPT !.frameData = <<>>, !.ranges = {}]]
    /\ UNCHANGED <<editor, isPlaying, isProcessing, fps, threshold, ranges, editorMode,
                   customConfig, activeFrameViewId, url, initialized, userChoice,
                   discarded>>
    /\ UNCHANGED runVars
    /\ UNCHANGED <<timelineVars, scorerVars>>

\* the videos of a session: an equirectangular one and a flat one
VideoSizes == {<<3840, 1920>>, <<1920, 1080>>}
LoadVideo == LoadVideoOf(VideoSizes)

\* setFps from the sample-rate buttons (disabled while isProcessing)
SetFps ==
    /\ videoSrc /\ ~isProcessing
    /\ \E f \in SampleRates : fps' = f
    /\ UNCHANGED <<editor, videoSrc, isPlaying, currentTime, isProcessing, progress,
                   frameData, threshold, ranges, editorMode, customConfig, frameViews,
                   activeFrameViewId, is360ModeEnabled, detection360Result, videoWidth,
                   videoHeight, url, initialized, userChoice, discarded>>
    /\ UNCHANGED videoVars
    /\ UNCHANGED runVars
    /\ UNCHANGED <<timelineVars, scorerVars>>

\* ------------------------------------------------ the timeline's ranges
\* generateRangeId(): `range_${Date.now()}_${random}`, an id not given before
generateRangeId(n) == n + 1

\* addRange(start, end, action = null): the list with the new range
addRange(rngs, id, start, end) ==
    rngs \cup {[id |-> id, start |-> Min(start, end), end |-> Max(start, end),
                action |-> "null"]}

\* removeRange(id): ranges.filter(r => r.id !== id)
removeRange(rngs, id) == {r \in rngs : r.id /= id}

\* A removeRange that leaves the selection as it was
KeepSelection(sel, id) == sel

\* removeRange(id): selectedRangeId === id ? null : selectedRangeId
SelectionAfterRemove(sel, id) == IF sel = id THEN NoRange ELSE sel

\* setRangeAction(id, action): ranges.map(r => r.id === id ? { ...r, action } : r)
setRangeAction(rngs, id, action) ==
    {IF r.id = id THEN [r EXCEPT !.action = action] ELSE r : r \in rngs}

\* Where the pointer is pressed, moved to and released, in 1/60 s from the
\* left edge of the track at the scale of the longest video
DragPositions == {0, 3, 6, 7, 10}

\* positionToTime(clientX): 0 without a duration, else the position clamped
\* to the track
positionToTime(p) ==
    IF duration = 0 THEN 0 ELSE Max(0, Min(duration * PosPerTick, p))

\* target.closest('[data-range-id]'): the pointer is on the block of a range
RangeAt(time) == {r \in ranges : r.start <= time /\ time <= r.end}

\* ranges.find(r => r.id === selectedRangeId)
selectedRange == {r \in ranges : r.id = selectedRangeId}

\* handleMouseDown on the track, outside the blocks of the ranges
TimelineMouseDown ==
    /\ editor = "planar" /\ ~isCreatingRange
    /\ rangeCount < MaxRanges
    /\ \E p \in DragPositions :
        LET time == positionToTime(p)
        IN /\ RangeAt(time) = {}
           /\ ranges' = IF \E r \in selectedRange : r.action = "null"
                        THEN removeRange(ranges, selectedRangeId)
                        ELSE ranges
           /\ isCreatingRange' = TRUE
           /\ rangeCreationStart' = time
           /\ tempRangeEnd' = time
           /\ selectedRangeId' = NoRange
    /\ UNCHANGED <<editor, videoSrc, isPlaying, currentTime, isProcessing, progress, fps,
                   frameData, threshold, editorMode, customConfig, frameViews,
                   activeFrameViewId, is360ModeEnabled, detection360Result, videoWidth,
                   videoHeight, url, initialized, userChoice, discarded, rangeCount>>
    /\ UNCHANGED <<videoVars, runVars, scorerVars>>

\* handleMouseMove of the window while a range is being created
TimelineMouseMove ==
    /\ editor = "planar" /\ isCreatingRange
    /\ \E p \in DragPositions : tempRangeEnd' = positionToTime(p)
    /\ UNCHANGED <<editor, videoSrc, isPlaying, currentTime, isProcessing, progress, fps,
                   frameData, threshold, ranges, editorMode, customConfig, frameViews,
                   activeFrameViewId, is360ModeEnabled, detection360Result, videoWidth,
                   videoHeight, url, initialized, userChoice, discarded, rangeCount,
                   selectedRangeId, isCreatingRange, rangeCreationStart>>
    /\ UNCHANGED <<videoVars, runVars, scorerVars>>

\* handleMouseUp of the window: onAddRange(start, end) if end - start > 0.1,
\* and the gesture's state is cleared
TimelineMouseUp ==
    /\ editor = "planar" /\ isCreatingRange
    /\ LET start == Min(rangeCreationStart, tempRangeEnd)
           end == Max(rangeCreationStart, tempRangeEnd)
           id == generateRangeId(rangeCount)
       IN IF end - start > MinRangeLength
          THEN /\ ranges' = addRange(ranges, id, start, end)
               /\ selectedRangeId' = id
               /\ rangeCount' = id
          ELSE UNCHANGED <<ranges, selectedRangeId, rangeCount>>
    /\ isCreatingRange' = FALSE
    /\ rangeCreationStart' = NoTime
    /\ tempRangeEnd' = NoTime
    /\ UNCHANGED <<editor, videoSrc, isPlaying, currentTime, isProcessing, progress, fps,
                   frameData, threshold, editorMode, customConfig, frameViews,
                   activeFrameViewId, is360ModeEnabled, detection360Result, videoWidth,
                   videoHeight, url, initialized, userChoice, discarded>>
    /\ UNCHANGED <<videoVars, runVars, scorerVars>>

\* onClick of a range's block: onSelectRange(isSelected ? null : range.id)
ClickRange ==
    /\ editor = "planar" /\ ~isCreatingRange
    /\ \E r \in ranges :
        selectedRangeId' = IF selectedRangeId = r.id THEN NoRange ELSE r.id
    /\ UNCHANGED <<editor, videoSrc, isPlaying, currentTime, isProcessing, progress, fps,
                   frameData, threshold, ranges, editorMode, customConfig, frameViews,
                   activeFrameViewId, is360ModeEnabled, detection360Result, videoWidth,
                   videoHeight, url, initialized, userChoice, discarded, rangeCount,
                   isCreatingRange, rangeCreationStart, tempRangeEnd>>
    /\ UNCHANGED <<videoVars, runVars, scorerVars>>

\* The action buttons shown for the selected range: onSetRangeAction(id, value)
\* and onUpdateRange(id, { maskPrompt: undefined }).  The mask_generation
\* button only opens a modal.
SetRangeAction ==
    /\ editor = "planar" /\ ~isCreatingRange
    /\ selectedRange /= {}
    /\ \E value \in {"exclude", "highlight"} :
        ranges' = setRangeAction(ranges, selectedRangeId, value)
    /\ UNCHANGED <<editor, videoSrc, isPlaying, currentTime, isProcessing, progress, fps,
                   frameData, threshold, editorMode, customConfig, frameViews,
                   activeFrameViewId, is360ModeEnabled, detection360Result, videoWidth,
                   videoHeight, url, initialized, userChoice, discarded>>
    /\ UNCHANGED <<videoVars, runVars, timelineVars, scorerVars>>

\* The delete button shown for the selected range: onRemoveRange(selectedRange.id)
RemoveRange ==
    /\ editor = "planar" /\ ~isCreatingRange
    /\ selectedRange /= {}
    /\ ranges' = removeRange(ranges, selectedRangeId)
    /\ selectedRangeId' = SelectionAfterRemove(selectedRangeId, selectedRangeId)
    /\ UNCHANGED <<editor, videoSrc, isPlaying, currentTime, isProcessing, progress, fps,
                   frameData, threshold, editorMode, customConfig, frameViews,
                   activeFrameViewId, is360ModeEnabled, detection360Result, videoWidth,
                   videoHeight, url, initialized, userChoice, discarded, rangeCount,
                   isCreatingRange, rangeCreationStart, tempRangeEnd>>
    /\ UNCHANGED <<videoVars, runVars, scorerVars>>

\* The Clear All button, shown while no range is selected and the list is
\* not empty: clearAllRanges()
ClearAllRanges ==
    /\ editor = "planar" /\ ~isCreatingRange
    /\ selectedRange = {} /\ ranges /= {}
    /\ ranges' = {}
    /\ selectedRangeId' = NoRange
    /\ UNCHANGED <<editor, videoSrc, isPlaying, currentTime, isProcessing, progress, fps,
                   frameData, threshold, editorMode, customConfig, frameViews,
                   activeFrameViewId, is360ModeEnabled, detection360Result, videoWidth,
                   videoHeight, url, initialized, userChoice, discarded, rangeCount,
                   isCreatingRange, rangeCreationStart, tempRangeEnd>>
    /\ UNCHANGED <<videoVars, runVars, scorerVars>>

\* setEditorMode from the mode buttons of the 360 options panel (shown for a
\* loaded video, disabled while isProcessing)
SetEditorMode ==
    /\ editor = "360" /\ videoSrc /\ is360ModeEnabled /\ ~isProcessing
    /\ \E mode \in {"skybox", "custom"} :
        /\ editorMode' = mode
        /\ frameViews' = ViewsOfMode(mode, customConfig)
        /\ activeFrameViewId' = FirstIdOr(frameViews', "none")
        /\ url' = SyncedUrl(mode, customConfig)
    /\ discarded' = HoldData(frameViews)
    /\ UNCHANGED <<editor, videoSrc, isPlaying, currentTime, isProcessing, progress, fps,
                   frameData, threshold, ranges, customConfig, is360ModeEnabled,
                   detection360Result, videoWidth, videoHeight, initialized, userChoice>>
    /\ UNCHANGED videoVars
    /\ UNCHANGED runVars
    /\ UNCHANGED <<timelineVars, scorerVars>>

\* ------------------------------------------- the 360 page and its views
\* Editor360Content's first effect, once, on mount: parseUrlConfig, then
\* setEditorMode and setCustomConfig for what the address gave; and the second
\* effect, which puts generateUrlParams of the resulting state in the address.
Mount ==
    /\ editor = "360" /\ ~initialized
    /\ initialized' = TRUE
    /\ LET mode == parseUrlMode(url)
           config == parseUrlConfig(url)
           hasConfig == DOMAIN config /= {}
           mode1 == IF mode /= "" THEN mode ELSE editorMode
           views1 == IF mode /= "" THEN ViewsOfMode(mode, customConfig) ELSE frameViews
           active1 == IF mode /= "" THEN FirstIdOr(views1, "none") ELSE activeFrameViewId
           config2 == IF hasConfig THEN MergeConfig(customConfig, config) ELSE customConfig
           views2 == IF hasConfig THEN ViewsOfConfig(mode1, views1, config2) ELSE views1
           active2 == IF hasConfig THEN FirstIdOr(views2, active1) ELSE active1
       IN /\ editorMode' = mode1
          /\ customConfig' = config2
          /\ frameViews' = views2
          /\ activeFrameViewId' = active2
          /\ url' = generateUrlParams(mode1, config2)
          /\ discarded' = IF mode /= "" \/ (hasConfig /\ mode1 = "custom")
                          THEN HoldData(frameViews) ELSE discarded
    /\ UNCHANGED <<editor, videoSrc, isPlaying, currentTime, isProcessing, progress, fps,
                   frameData, threshold, ranges, is360ModeEnabled, detection360Result,
                   videoWidth, videoHeight, userChoice>>
    /\ UNCHANGED videoVars
    /\ UNCHANGED runVars
    /\ UNCHANGED <<timelineVars, scorerVars>>

\* What a slider of the Custom Configuration section passes to
\* setCustomConfig (one key); the refresh button passes the whole config.
SliderConfigs ==
    { "frameCount" :> 7 }

\* setCustomConfig from the Custom Configuration section (shown in custom mode
\* for a loaded video in 360 mode, disabled while isProcessing), then the
\* page's second effect
SetCustomConfig ==
    /\ editor = "360" /\ videoSrc /\ is360ModeEnabled /\ editorMode = "custom"
    /\ ~isProcessing
    /\ \E config \in SliderConfigs \cup {customConfig} :
        /\ customConfig' = MergeConfig(customConfig, config)
        /\ frameViews' = ViewsOfConfig(editorMode, frameViews, customConfig')
        /\ activeFrameViewId' = FirstIdOr(frameViews', activeFrameViewId)
        /\ url' = SyncedUrl(editorMode, customConfig')
    /\ discarded' = IF editorMode = "custom" THEN HoldData(frameViews) ELSE discarded
    /\ UNCHANGED <<editor, videoSrc, isPlaying, currentTime, isProcessing, progress, fps,
                   frameData, threshold, ranges, editorMode, is360ModeEnabled,
                   detection360Result, videoWidth, videoHeight, initialized, userChoice>>
    /\ UNCHANGED videoVars
    /\ UNCHANGED runVars
    /\ UNCHANGED <<timelineVars, scorerVars>>

\* set360ModeEnabled(!is360ModeEnabled) from the Force 360 Mode switch (the
\* ProcessingOverlay covers the page while isProcessing)
Set360ModeEnabled ==
    /\ editor = "360" /\ videoSrc /\ ~isProcessing
    /\ is360ModeEnabled' = ~is360ModeEnabled
    /\ userChoice' = IF is360ModeEnabled' THEN "true" ELSE "false"
    /\ UNCHANGED <<editor, videoSrc, isPlaying, currentTime, isProcessing, progress, fps,
                   frameData, threshold, ranges, editorMode, customConfig, frameViews,
                   activeFrameViewId, detection360Result, videoWidth, videoHeight, url,
                   initialized, discarded>>
    /\ UNCHANGED videoVars
    /\ UNCHANGED runVars
    /\ UNCHANGED <<timelineVars, scorerVars>>

\* setActiveFrameView(view.id) from a view's tab on the timeline or its
\* preview (the views displayed are those of frameViews)
SetActiveFrameView ==
    /\ editor = "360" /\ initialized /\ ~isProcessing
    /\ \E j \in 1..Len(frameViews) : activeFrameViewId' = frameViews[j].id
    /\ UNCHANGED <<editor, videoSrc, isPlaying, currentTime, isProcessing, progress, fps,
                   frameData, threshold, ranges, editorMode, customConfig, frameViews,
                   is360ModeEnabled, detection360Result, videoWidth, videoHeight, url,
                   initialized, userChoice, discarded>>
    /\ UNCHANGED videoVars
    /\ UNCHANGED runVars
    /\ UNCHANGED <<timelineVars, scorerVars>>

\* updateFrameView(id, updates): frameViews.map(v => v.id === id ? {...v, ...updates} : v)
updateFrameView(views, id, updates) ==
    [j \in 1..Len(views) |->
        IF views[j].id = id
        THEN [k \in DOMAIN views[j] |->
                IF k \in DOMAIN updates THEN updates[k] ELSE views[j][k]]
        ELSE views[j]]

\* The view operations of the timeline and the preview, on the active view:
\* renameFrameView, setThreshold, addRange and updateActiveFrameViewAngle
\* (custom mode only).  The ProcessingOverlay covers the page while isProcessing.
EditFrameView ==
    /\ editor = "360" /\ videoSrc /\ ~isProcessing
    /\ \/ frameViews' = updateFrameView(frameViews, activeFrameViewId, "name" :> "Camera")
       \/ frameViews' = updateFrameView(frameViews, activeFrameViewId, "threshold" :> 0)
       \/ frameViews' =
             [j \in 1..Len(frameViews) |->
                IF frameViews[j].id = activeFrameViewId
                THEN [frameViews[j] EXCEPT !.ranges =
                        @ \cup {[id |-> 1, start |-> Min(0, PosPerTick),
                                 end |-> Max(0, PosPerTick), action |-> "exclude"]}]
                ELSE frameViews[j]]
       \/ /\ activeFrameViewId /= "none" /\ editorMode = "custom"
          /\ frameViews' = updateFrameView(frameViews, activeFrameViewId,
                                           ("yaw" :> 45 * Deg) @@ ("pitch" :> 10))
    /\ UNCHANGED <<isPlaying, currentTime, isProcessing, progress, frameData, duration,
                   vTime, vPaused, vSeeking>>
    /\ UNCHANGED configVars
    /\ UNCHANGED runVars

\* togglePlay (button or Space), then the playback effect and the seek effect
TogglePlay ==
    /\ videoSrc
    /\ isPlaying' = ~isPlaying
    /\ vPaused' = IF isPlaying' THEN (vTime >= duration) ELSE TRUE
    /\ SeekEffect(isPlaying', currentTime)
    /\ UNCHANGED <<currentTime, isProcessing, progress, frameData, frameViews, duration>>
    /\ UNCHANGED configVars
    /\ UNCHANGED runVars

\* seek(time) from the timeline playhead, the step buttons or the keys, then
\* the seek effect
Seek ==
    /\ videoSrc
    /\ \E t \in 0..duration :
        /\ currentTime' = Max(0, Min(t, duration))
        /\ SeekEffect(isPlaying, currentTime')
    /\ UNCHANGED <<isPlaying, isProcessing, progress, frameData, frameViews, duration, vPaused>>
    /\ UNCHANGED configVars
    /\ UNCHANGED runVars

\* One frame of playback: the position advances and the animation loop reports
\* it (onTimeUpdate -> setCurrentTime).  Playback pauses at the end.
PlaybackFrame ==
    /\ ~vPaused /\ ~vSeeking /\ vTime < duration
    /\ vTime' = vTime + 1
    /\ currentTime' = vTime'
    /\ vPaused' = (vTime' >= duration)
    /\ UNCHANGED <<isPlaying, isProcessing, progress, frameData, frameViews, duration,
                   vSeeking>>
    /\ UNCHANGED configVars
    /\ UNCHANGED runVars

\* 'seeked' with no run waiting for it: the player redraws
Seeked ==
    /\ vSeeking /\ pc /= "awaitSeek"
    /\ vSeeking' = FALSE
    /\ UNCHANGED <<isPlaying, currentTime, isProcessing, progress, frameData, frameViews,
                   duration, vTime, vPaused>>
    /\ UNCHANGED configVars
    /\ UNCHANGED runVars

\* ------------------------------------------------------------ the runs
\* The async function returned: its locals are gone.
RunLocalsDropped ==
    /\ pc' = "idle"
    /\ runKind' = "none"
    /\ idx' = 0
    /\ results' = <<>>
    /\ originalTime' = 0
    /\ runFps' = 0
    /\ totalFrames' = 0
    /\ sharpFrames' = <<>>
    /\ readFrame' = 0

\* The function suspends at `await new Promise(... 'seeked' ...)` in pass i
AwaitSeeked(kind, i) ==
    /\ pc' = "awaitSeek"
    /\ runKind' = kind
    /\ idx' = i

\* A sample of the run in progress (fresh marks it as this run's)
Sample(t, v) == [time |-> t, variance |-> v, fresh |-> TRUE]

\* A loop with one pass more and without the break
LoopOnePassMore(i, tf, f, d) == i <= tf + 1

\* A loop that stops one pass early (i < totalFrames)
LoopStopsEarly(i, tf, f, d) == i < tf /\ ~(i * Interval(f) > d)

\* ------------------------------------ runAnalysis / runMultiViewAnalysis
\* for (let i = 0; i <= totalFrames; i++) { const time = i * interval;
\*                                          if (time > duration) break; ...
LoopContinues(i, tf, f, d) == i <= tf /\ ~(i * Interval(f) > d)

\* A finally block that clears the flag and leaves the position where the
\* last seek of the run put it
FinallyWithoutRestore(orig) ==
    /\ isProcessing' = FALSE
    /\ UNCHANGED <<vTime, vSeeking>>

\* finally { setIsProcessing(false); video.currentTime = originalTime; }
AnalysisFinally(orig) ==
    /\ isProcessing' = FALSE
    /\ SeekTo(orig)

\* catch (error) { console.error(...) } and then the finally block: the
\* function returns normally, so its promise is fulfilled.
AnalysisCatch ==
    /\ errorLogged' = TRUE
    /\ AnalysisFinally(originalTime)
    /\ runResult' = "resolved"
    /\ RunLocalsDropped

\* The loop head for loop variable i: either the next seek is issued and the
\* function awaits 'seeked', or the loop is left and the finally block runs.
AnalysisLoop(kind, i, tf, f, orig, res) ==
    IF LoopContinues(i, tf, f, duration)
    THEN /\ SeekTo(i * Interval(f))
         /\ AwaitSeeked(kind, i)
         /\ isProcessing' = TRUE
         /\ runResult' = "pending"
         /\ results' = res
         /\ originalTime' = orig
         /\ runFps' = f
         /\ totalFrames' = tf
         /\ readFrame' = 0
         /\ UNCHANGED sharpFrames
    ELSE /\ AnalysisFinally(orig)
         /\ runResult' = "resolved"
         /\ RunLocalsDropped

\* useEditor.runAnalysis up to its first await.  The Run Analysis button is
\* disabled while isProcessing or without a video.
RunAnalysis ==
    /\ editor = "planar" /\ videoSrc /\ ~isProcessing /\ pc = "idle"
    /\ hadData' = (frameData /= <<>>)
    /\ frameData' = <<>>
    /\ progress' = 0
    /\ vPaused' = TRUE
    /\ errorLogged' = FALSE
    /\ alerted' = FALSE
    /\ AnalysisLoop("analysis", 0, TotalFrames(duration, fps), fps, vTime, <<>>)
    /\ UNCHANGED <<isPlaying, currentTime, frameViews, duration, zip, saved>>
    /\ UNCHANGED configVars

\* 'seeked' resolves the awaited promise: draw, score, publish, then yield;
\* or an exception is thrown on the way (no 2d context, drawImage,
\* getImageData) and the catch and finally blocks run.
AnalysisSeeked ==
    /\ pc = "awaitSeek" /\ runKind = "analysis"
    /\ \/ /\ readFrame' = vTime
          /\ results' = Append(results, Sample(idx * Interval(runFps), FrameVariance(vTime)))
          /\ frameData' = results'
          /\ progress' = ProgressOf(idx + 1, totalFrames)
          /\ pc' = "yield"
          /\ vSeeking' = FALSE
          /\ UNCHANGED <<vTime, isProcessing, runKind, runResult, errorLogged,
                         idx, originalTime, runFps, totalFrames, sharpFrames>>
       \/ /\ AnalysisCatch
          /\ UNCHANGED <<frameData, progress>>
    /\ UNCHANGED <<isPlaying, currentTime, frameViews, duration, vPaused, zip, alerted,
                   saved, hadData>>
    /\ UNCHANGED configVars

\* the setTimeout(r, 0) of the yield fires: i++ and the loop head again
AnalysisResume ==
    /\ pc = "yield" /\ runKind = "analysis"
    /\ AnalysisLoop("analysis", idx + 1, totalFrames, runFps, originalTime, results)
    /\ UNCHANGED <<isPlaying, currentTime, progress, frameData, frameViews, duration,
                   vPaused, zip, errorLogged, alerted, saved, hadData>>
    /\ UNCHANGED configVars

\* Where an exception may end the pass over n views: before the first view,
\* after the first, after the last but one; n stands for no exception.
ThrowPoints(n) == {0, 1, n - 1, n} \cap 0..n

\* A run that keeps the views' earlier samples and appends to them
KeepViewData(v) ==
    [v EXCEPT !.frameData = [k \in 1..Len(@) |-> [@[k] EXCEPT !.fresh = FALSE]]]

\* setState(prev => ({...prev, frameViews: prev.frameViews.map(v => ({...v, frameData: []}))}))
ResetViewData(v) == [v EXCEPT !.frameData = <<>>]

\* useEditor360.runMultiViewAnalysis up to its first await
RunMultiViewAnalysis ==
    /\ editor = "360" /\ videoSrc /\ is360ModeEnabled /\ ~isProcessing /\ pc = "idle"
    /\ hadData' = (\E j \in 1..Len(frameViews) : frameViews[j].frameData /= <<>>)
    /\ progress' = 0
    /\ frameViews' = [j \in 1..Len(frameViews) |-> ResetViewData(frameViews[j])]
    /\ vPaused' = TRUE
    /\ errorLogged' = FALSE
    /\ alerted' = FALSE
    /\ AnalysisLoop("multiview", 0, TotalFrames(duration, fps), fps, vTime, <<>>)
    /\ UNCHANGED <<isPlaying, currentTime, frameData, duration, zip, saved>>
    /\ UNCHANGED configVars

\* 'seeked' resolves the awaited promise: the frame is drawn and the views are
\* extracted and scored in order, each appending its sample and reporting
\* progress (operationCount is frameIdx * views + k after the k-th view).  An
\* exception after k views leaves their samples and runs catch and finally.
MultiViewSeeked ==
    /\ pc = "awaitSeek" /\ runKind = "multiview"
    /\ \E k \in ThrowPoints(Len(frameViews)) :
        LET n == Len(frameViews)
            time == idx * Interval(runFps)
        IN /\ frameViews' = [j \in 1..n |->
                 IF j <= k
                 THEN [frameViews[j] EXCEPT !.frameData =
                          Append(@, Sample(time, ViewVariance(vTime, j)))]
                 ELSE frameViews[j]]
           /\ progress' = IF k = 0 THEN progress
                          ELSE ProgressOf(idx * n + k, totalFrames * n)
           /\ IF k = n
              THEN /\ readFrame' = vTime
                   /\ pc' = "yield"
                   /\ vSeeking' = FALSE
                   /\ UNCHANGED <<vTime, isProcessing, runKind, runResult, errorLogged,
                                  idx, results, originalTime, runFps, totalFrames,
                                  sharpFrames>>
              ELSE AnalysisCatch
    /\ UNCHANGED <<isPlaying, currentTime, frameData, duration, vPaused, zip, alerted,
                   saved, hadData>>
    /\ UNCHANGED configVars

\* the setTimeout(r, 0) of the yield fires: frameIdx++ and the loop head again
MultiViewResume ==
    /\ pc = "yield" /\ runKind = "multiview"
    /\ AnalysisLoop("multiview", idx + 1, totalFrames, runFps, originalTime, results)
    /\ UNCHANGED <<isPlaying, currentTime, progress, frameData, frameViews, duration,
                   vPaused, zip, errorLogged, alerted, saved, hadData>>
    /\ UNCHANGED configVars

\* ------------------------------------------------- selection and export
RECURSIVE ReduceMax(_, _)
\* frameData.reduce((max, item) => Math.max(max, item.variance), 0), first k items
ReduceMax(fd, k) == IF k = 0 THEN 0 ELSE Max(ReduceMax(fd, k - 1), fd[k].variance)
\* const maxVariance = frameData.reduce(...) || 1
MaxVarianceOf(fd) == IF ReduceMax(fd, Len(fd)) = 0 THEN 1 ELSE ReduceMax(fd, Len(fd))
\* const effectiveThreshold = Math.min(state.threshold, maxVariance)
EffectiveThreshold(thr, fd) == Min(thr, MaxVarianceOf(fd))
\* state.frameData.filter(f => f.variance >= effectiveThreshold).length
FramesAboveThreshold(fd, thr) ==
    Len(SelectSeq(fd, LAMBDA f : f.variance >= EffectiveThreshold(thr, fd)))

\* excludedRanges.some(range => time >= range.start && time <= range.end)
IsTimeExcluded(rngs, t) ==
    \E r \in rngs : /\ r.action = "exclude"
                     /\ t * PosPerTick >= r.start /\ t * PosPerTick <= r.end

\* EditorPage.handleDownload: sharpFrames
SharpFrames(fd, thr, rngs) ==
    SelectSeq(fd, LAMBDA f : f.variance >= EffectiveThreshold(thr, fd)
                             /\ ~IsTimeExcluded(rngs, f.time))

\* Editor360Content.handleDownload: sharpFrames of the active view
SharpFrames360(view) ==
    SelectSeq(view.frameData, LAMBDA f : f.variance >= view.threshold
                                         /\ ~IsTimeExcluded(view.ranges, f.time))

\* Timeline360: const threshold = activeView?.threshold || 300 and the
\* count framesAboveThreshold shown for the active view
Timeline360Threshold(view) == IF view.threshold = 0 THEN 300 ELSE view.threshold
FramesAboveThreshold360(view) ==
    FramesAboveThreshold(view.frameData, Timeline360Threshold(view))

\* state.frameViews.find(v => v.id === state.activeFrameViewId)
HasActiveView == \E j \in 1..Len(frameViews) : frameViews[j].id = activeFrameViewId
ActiveView ==
    frameViews[CHOOSE j \in 1..Len(frameViews) :
                  /\ frameViews[j].id = activeFrameViewId
                  /\ \A i \in 1..(j - 1) : frameViews[i].id /= activeFrameViewId]

\* formatTime: mins = Math.floor(seconds / 60), secs = Math.floor(seconds % 60);
\* the pair stands for `${mins}:${secs padded to 2}` and `${mins}-${secs ..}`
FormatTime(t) == << t \div (60 * TicksPerSec), (t % (60 * TicksPerSec)) \div TicksPerSec >>

\* An archive path is <<folder, file>>.  Planar: `frame_${m-ss}_${Math.round(variance)}.jpg`
PlanarPath(f) ==
    << <<>>, <<"frame", FormatTime(f.time)[1], FormatTime(f.time)[2], f.variance>> >>
\* Skybox: zip.folder(`frame_${timeStr}`).file(`${face}.jpg`)
SkyboxPaths(f) ==
    { << <<"frame", FormatTime(f.time)[1], FormatTime(f.time)[2]>>, <<CUBEMAP_FACES[j].face>> >> :
        j \in 1..Len(CUBEMAP_FACES) }
\* Custom: zip.folder(view.name).file(`frame_${timeStr}_${Math.round(frame.variance)}.jpg`)
CustomPaths(f) ==
    { << <<frameViews[j].name>>, <<"frame", FormatTime(f.time)[1], FormatTime(f.time)[2], f.variance>> >> :
        j \in 1..Len(frameViews) }

\* EditorPage.handleDownload: finally { setIsProcessing(false);
\*   video.currentTime = originalTime; setProgress(0); }
DownloadFinally ==
    /\ isProcessing' = FALSE
    /\ SeekTo(originalTime)
    /\ progress' = 0

\* EditorPage.handleDownload up to its first await.  The Export button is
\* disabled while isProcessing or without frameData.
HandleDownload ==
    /\ editor = "planar" /\ videoSrc /\ ~isProcessing /\ pc = "idle"
    /\ frameData /= <<>>
    /\ LET sharp == SharpFrames(frameData, threshold, ranges)
       IN IF sharp = <<>>
          THEN /\ alerted' = TRUE
               /\ runResult' = "resolved"
               /\ zip' = {}
               /\ saved' = FALSE
               /\ errorLogged' = FALSE
               /\ UNCHANGED <<isProcessing, vTime, vPaused, vSeeking, pc, runKind, idx,
                              originalTime, sharpFrames>>
          ELSE /\ isProcessing' = TRUE
               /\ originalTime' = vTime
               /\ vPaused' = TRUE
               /\ sharpFrames' = sharp
               /\ zip' = {}
               /\ saved' = FALSE
               /\ alerted' = FALSE
               /\ errorLogged' = FALSE
               /\ runResult' = "pending"
               /\ SeekTo(sharp[1].time)
               /\ AwaitSeeked("export", 1)
    /\ UNCHANGED <<isPlaying, currentTime, progress, frameData, frameViews, duration,
                   results, runFps, totalFrames, hadData, readFrame>>
    /\ UNCHANGED configVars

\* 'seeked' resolves the awaited promise: the frame is drawn and added to the
\* archive, progress is reported, then the yield; or an exception runs catch
\* (console.error, alert) and finally.
DownloadSeeked ==
    /\ pc = "awaitSeek" /\ runKind = "export"
    /\ \/ /\ zip' = zip \cup {PlanarPath(sharpFrames[idx])}
          /\ progress' = ProgressOf(idx, Len(sharpFrames))
          /\ readFrame' = vTime
          /\ pc' = "yield"
          /\ vSeeking' = FALSE
          /\ UNCHANGED <<isProcessing, vTime, runKind, idx, originalTime, sharpFrames,
                         results, runFps, totalFrames, runResult, errorLogged, alerted>>
       \/ /\ errorLogged' = TRUE
          /\ alerted' = TRUE
          /\ DownloadFinally
          /\ runResult' = "resolved"
          /\ RunLocalsDropped
          /\ UNCHANGED zip
    /\ UNCHANGED <<isPlaying, currentTime, frameData, frameViews, duration, vPaused,
                   saved, hadData>>
    /\ UNCHANGED configVars

\* the setTimeout(r, 0) fires: the next frame of sharpFrames, or after the
\* last one zip.generateAsync, saveAs and the finally block
DownloadResume ==
    /\ pc = "yield" /\ runKind = "export"
    /\ IF idx < Len(sharpFrames)
       THEN /\ SeekTo(sharpFrames[idx + 1].time)
            /\ AwaitSeeked("export", idx + 1)
            /\ readFrame' = 0
            /\ UNCHANGED <<isProcessing, progress, originalTime, sharpFrames, results,
                           runFps, totalFrames, runResult, saved>>
       ELSE /\ saved' = TRUE
            /\ DownloadFinally
            /\ runResult' = "resolved"
            /\ RunLocalsDropped
    /\ UNCHANGED <<isPlaying, currentTime, frameData, frameViews, duration, vPaused,
                   zip, errorLogged, alerted, hadData>>
    /\ UNCHANGED configVars

\* Editor360Content.handleDownload: finally { setIsProcessing(false); setProgress(0); }
Download360Finally ==
    /\ isProcessing' = FALSE
    /\ progress' = 0

\* Editor360Content.handleDownload up to its first await.  The Export button
\* is disabled while isProcessing or while the active view has no frameData.
HandleDownload360 ==
    /\ editor = "360" /\ videoSrc /\ ~isProcessing /\ pc = "idle"
    /\ HasActiveView /\ ActiveView.frameData /= <<>>
    /\ LET sharp == SharpFrames360(ActiveView)
       IN IF sharp = <<>>
          THEN /\ alerted' = TRUE
               /\ Download360Finally
               /\ runResult' = "resolved"
               /\ zip' = {}
               /\ saved' = FALSE
               /\ errorLogged' = FALSE
               /\ UNCHANGED <<vTime, vSeeking, pc, runKind, idx, sharpFrames>>
          ELSE /\ isProcessing' = TRUE
               /\ sharpFrames' = sharp
               /\ zip' = {}
               /\ saved' = FALSE
               /\ alerted' = FALSE
               /\ errorLogged' = FALSE
               /\ runResult' = "pending"
               /\ SeekTo(sharp[1].time)
               /\ AwaitSeeked("export360", 1)
               /\ UNCHANGED progress
    /\ UNCHANGED <<isPlaying, currentTime, frameData, frameViews, duration, vPaused,
                   results, originalTime, runFps, totalFrames, hadData, readFrame>>
    /\ UNCHANGED configVars

\* 'seeked' resolves the awaited promise: the frame is drawn; skybox mode adds
\* the folder of the timestamp with the six faces, custom mode adds one image
\* to each view's folder; progress, then the yield.  Or an exception runs
\* catch (console.error, alert) and finally.
Download360Seeked ==
    /\ pc = "awaitSeek" /\ runKind = "export360"
    /\ \/ /\ zip' = zip \cup (IF editorMode = "skybox"
                              THEN SkyboxPaths(sharpFrames[idx])
                              ELSE CustomPaths(sharpFrames[idx]))
          /\ progress' = ProgressOf(idx, Len(sharpFrames))
          /\ readFrame' = vTime
          /\ pc' = "yield"
          /\ vSeeking' = FALSE
          /\ UNCHANGED <<isProcessing, vTime, runKind, idx, originalTime, sharpFrames,
                         results, runFps, totalFrames, runResult, errorLogged, alerted>>
       \/ /\ errorLogged' = TRUE
          /\ alerted' = TRUE
          /\ Download360Finally
          /\ runResult' = "resolved"
          /\ RunLocalsDropped
          /\ UNCHANGED <<zip, vTime, vSeeking>>
    /\ UNCHANGED <<isPlaying, currentTime, frameData, frameViews, duration, vPaused,
                   saved, hadData>>
    /\ UNCHANGED configVars

\* the setTimeout(r, 0) fires: the next frame of sharpFrames, or after the
\* last one zip.generateAsync, saveAs and the finally block
Download360Resume ==
    /\ pc = "yield" /\ runKind = "export360"
    /\ IF idx < Len(sharpFrames)
       THEN /\ SeekTo(sharpFrames[idx + 1].time)
            /\ AwaitSeeked("export360", idx + 1)
            /\ readFrame' = 0
            /\ UNCHANGED <<isProcessing, progress, originalTime, sharpFrames, results,
                           runFps, totalFrames, runResult, saved>>
       ELSE /\ saved' = TRUE
            /\ Download360Finally
            /\ runResult' = "resolved"
            /\ RunLocalsDropped
            /\ UNCHANGED <<vTime, vSeeking>>
    /\ UNCHANGED <<isPlaying, currentTime, frameData, frameViews, duration, vPaused,
                   zip, errorLogged, alerted, hadData>>
    /\ UNCHANGED configVars

\* ------------------------------------------ sessions that hold frameData
\* The frameData a finished analysis at rate f leaves for a video whose last
\* sample is number n - 1, the frames having the variances vs
AnalysedData(f, vs) == [k \in 1..Len(vs) |-> Sample((k - 1) * Interval(f), vs[k])]

\* Variances of the analysed frames (0 is a uniform frame), thresholds the
\* threshold line can be left at (300 is the initial one), and the ranges
\* drawn on the timeline
Variances == {0, 200, 400}
Thresholds == {0, DefaultThreshold, 500}
RangeSets ==
    { {},
      {[id |-> 1, start |-> 4 * PosPerTick, end |-> 8 * PosPerTick, action |-> "exclude"]},
      {[id |-> 1, start |-> 4 * PosPerTick, end |-> 8 * PosPerTick, action |-> "highlight"]} }

\* A session after a video was imported and analysed, the threshold line and
\* the ranges set, and nothing running: the states an export starts from.
InitExport ==
    /\ editor \in {"planar", "360"}
    /\ editorMode \in (IF editor = "360" THEN {"skybox", "custom"} ELSE {"skybox"})
    /\ customConfig = DEFAULT_CUSTOM_CONFIG
    /\ initialized = (editor = "360")
    /\ url = IF editor = "360" THEN generateUrlParams(editorMode, customConfig)
             ELSE EmptyQuery
    /\ is360ModeEnabled = TRUE
    /\ detection360Result = IF editor = "360" THEN detect360Video(3840, 1920) ELSE NoDetection
    /\ videoWidth = 3840
    /\ videoHeight = 1920
    /\ userChoice = "none"
    /\ discarded = FALSE
    /\ videoSrc = TRUE
    /\ isPlaying = FALSE
    /\ isProcessing = FALSE
    /\ currentTime = 0
    /\ \E f \in SampleRates, n \in 1..MaxSamples :
         \E vs \in [1..n -> Variances], thr \in Thresholds, rs \in RangeSets :
            /\ fps = f
            /\ duration = (n - 1) * Interval(f)
            /\ progress = ProgressOf(n, TotalFrames(duration, f))
            /\ IF editor = "planar"
               THEN /\ frameData = AnalysedData(f, vs)
                    /\ threshold = thr
                    /\ ranges = rs
                    /\ frameViews = <<>>
                    /\ activeFrameViewId = "none"
               ELSE /\ frameData = <<>>
                    /\ threshold = DefaultThreshold
                    /\ ranges = {}
                    /\ LET views == IF editorMode = "skybox" THEN createSkyboxFrameViews
                                     ELSE createCustomFrameViews(customConfig)
                       IN /\ frameViews = [j \in 1..Len(views) |->
                                IF j = 1
                                THEN [views[j] EXCEPT !.frameData = AnalysedData(f, vs),
                                                      !.threshold = thr,
                                                      !.ranges = rs]
                                ELSE [views[j] EXCEPT !.frameData = AnalysedData(f, vs)]]
                          /\ activeFrameViewId = views[1].id
    /\ selectedRangeId = NoRange
    /\ isCreatingRange = FALSE
    /\ rangeCreationStart = NoTime
    /\ tempRangeEnd = NoTime
    /\ rangeCount = IF editor = "planar" THEN Cardinality(ranges) ELSE 0
    /\ InitScorer
    /\ vTime = 0
    /\ vPaused = TRUE
    /\ vSeeking = FALSE
    /\ InitRun

\* ------------------------------------------------------- specifications
Next ==
    \/ LoadVideo
    \/ SetFps
    \/ SetEditorMode
    \/ TogglePlay
    \/ Seek
    \/ PlaybackFrame
    \/ Seeked
    \/ RunAnalysis
    \/ AnalysisSeeked
    \/ AnalysisResume
    \/ RunMultiViewAnalysis
    \/ MultiViewSeeked
    \/ MultiViewResume

Spec == Init /\ [][Next]_vars

\* Imports, sample rates, seeks and analysis runs, with the decoder confirming
\* every seek a run waits for ('seeked' fires) and the scheduler running every
\* timer a run set (setTimeout(r, 0))
NextRuns ==
    \/ LoadVideo
    \/ SetFps
    \/ Seek
    \/ Seeked
    \/ RunAnalysis
    \/ AnalysisSeeked
    \/ AnalysisResume
    \/ RunMultiViewAnalysis
    \/ MultiViewSeeked
    \/ MultiViewResume

FairSpec ==
    /\ Init /\ [][NextRuns]_vars
    /\ WF_vars(AnalysisSeeked) /\ WF_vars(AnalysisResume)
    /\ WF_vars(MultiViewSeeked) /\ WF_vars(MultiViewResume)

\* Exports from analysed sessions
NextExport ==
    \/ HandleDownload
    \/ DownloadSeeked
    \/ DownloadResume
    \/ HandleDownload360
    \/ Download360Seeked
    \/ Download360Resume
    \/ Seeked

SpecExport == InitExport /\ [][NextExport]_vars

\* The /editor360 page opened at an address, and what the options panel, the
\* timeline and the preview do to mode, configuration and views
\* configurations the sliders can set (frameCount 1..12, rigPitch -45..45,
\* startAngle 0..360, fov 30..120) whose addresses are opened
SharedConfigs ==
    [frameCount : {1, 12}, rigPitch : {-45, 10}, startAngle : {0, 345}, fov : {100}]
QueryStrings ==
    LET custom == [EmptyQuery EXCEPT !.mode = "custom"]
    IN { EmptyQuery,
         [EmptyQuery EXCEPT !.mode = "skybox"],
         [EmptyQuery EXCEPT !.mode = "cube"],
         custom,
         [EmptyQuery EXCEPT !.frames = <<"6">>],
         [custom EXCEPT !.frames = <<"1", "3">>],
         [custom EXCEPT !.frames = <<"0">>],
         [custom EXCEPT !.frames = <<"a", "b", "c">>],
         [custom EXCEPT !.angle = <<"-", "3", "0">>] }
      \cup { generateUrlParams("custom", c) : c \in SharedConfigs }

InitConfig ==
    /\ editor = "360"
    /\ initialized = FALSE
    /\ url \in QueryStrings
    /\ InitSession
    /\ InitVideo
    /\ InitRun

NextConfig ==
    \/ Mount
    \/ LoadVideo
    \/ SetEditorMode
    \/ SetCustomConfig
    \/ EditFrameView
    \/ Seeked
    \/ RunMultiViewAnalysis
    \/ MultiViewSeeked
    \/ MultiViewResume

SpecConfig == InitConfig /\ [][NextConfig]_vars

\* ------------------------------------------------- the sharpness score
\* The RGB values of the pixels a frame is drawn with
Colours == {<<0, 0, 0>>, <<255, 255, 255>>}

\* grayData[i / 4] = 0.299 * data[i] + 0.587 * data[i + 1] + 0.114 * data[i + 2],
\* stored in a Uint8Array
Gray(px) == ((299 * px[1] + 587 * px[2] + 114 * px[3]) \div 1000) % 256

RECURSIVE SumSeq(_)
SumSeq(s) == IF s = <<>> THEN 0 ELSE Head(s) + SumSeq(Tail(s))

\* computeLaplacianVariance(ctx, width, height) for the pixels `data` of the
\* context, row by row.  getImageData throws for a width or height of 0.  The
\* value returned is varianceSum / count with mean = sum / count, that is
\* (count * (sum of val^2) - sum^2) / count^2, given as num / den; with no
\* interior pixel it is 0 / 0, the number NaN.
computeLaplacianVariance(data, width, height) ==
    IF width = 0 \/ height = 0 THEN [kind |-> "throw"]
    ELSE LET grayData == [i \in 1..(width * height) |-> Gray(data[i])]
             cols == Max(0, width - 2)
             rows == Max(0, height - 2)
             count == cols * rows
             at(x, y) == grayData[y * width + x + 1]
             val(x, y) == at(x, y - 1) + at(x, y + 1) + at(x - 1, y) + at(x + 1, y)
                            - 4 * at(x, y)
             laplacianData == [k \in 1..count |->
                                 val(1 + ((k - 1) % cols), 1 + ((k - 1) \div cols))]
             sum == SumSeq(laplacianData)
             squares == SumSeq([k \in 1..count |-> laplacianData[k] * laplacianData[k]])
         IN IF count = 0 THEN [kind |-> "NaN"]
            ELSE [kind |-> "number", num |-> count * squares - sum * sum,
                  den |-> count * count]

\* The canvases the scoring may be handed: every size up to the bounds, every
\* picture in the colours
Canvases ==
    UNION {[width : {w}, height : {h}, data : [1..(w * h) -> Colours]] :
             w \in 0..MaxWidth, h \in 0..MaxHeight}

\* const variance = computeLaplacianVariance(ctx, width, height)
ScoreFrame ==
    /\ variance = NoScore
    /\ variance' = computeLaplacianVariance(canvas.data, canvas.width, canvas.height)
    /\ UNCHANGED <<editor, videoSrc, isPlaying, currentTime, isProcessing, progress, fps,
                   frameData, threshold, ranges, editorMode, customConfig, frameViews,
                   activeFrameViewId, is360ModeEnabled, detection360Result, videoWidth,
                   videoHeight, url, initialized, userChoice, discarded, canvas>>
    /\ UNCHANGED <<videoVars, runVars, timelineVars>>

\* A frame of any size and content is on the canvas and is scored.
InitCanvases ==
    /\ editor = "planar"
    /\ initialized = FALSE
    /\ url = EmptyQuery
    /\ InitSession
    /\ NoVideo
    /\ InitRun
    /\ canvas \in Canvases
    /\ variance = NoScore

NextScorer == ScoreFrame

SpecScorer == InitCanvases /\ [][NextScorer]_vars

\* ------------------------------------------- the planar editor's timeline
\* The planar editor: videos are imported and ranges are drawn, selected,
\* given an action, deleted and cleared on the timeline.
InitRanges ==
    /\ editor = "planar"
    /\ initialized = FALSE
    /\ url = EmptyQuery
    /\ InitSession
    /\ InitVideo
    /\ InitRun

NextRanges ==
    \/ LoadVideo
    \/ TimelineMouseDown
    \/ TimelineMouseMove
    \/ TimelineMouseUp
    \/ ClickRange
    \/ SetRangeAction
    \/ RemoveRange
    \/ ClearAllRanges

SpecRanges == InitRanges /\ [][NextRanges]_vars

\* The /editor360 page opened at an address: which views there are and which
\* one is active
NextViews ==
    \/ Mount
    \/ LoadVideo
    \/ SetEditorMode
    \/ SetCustomConfig
    \/ SetActiveFrameView

SpecViews == InitConfig /\ [][NextViews]_vars

\* Videos of many sizes imported into the 360 editor, and the Force 360 Mode
\* switch
DetectWidths == {1900, 1920, 2019, 2020, 2100, 3000, 3740, 3840, 3900, 3939, 3940, 4100}
DetectHeights == {960, 1000, 1080, 1500, 1870, 1920, 1969, 1970, 2000, 2050}
DetectSizes == {<<w, h>> : w \in DetectWidths, h \in DetectHeights}

InitDetect ==
    /\ editor = "360"
    /\ initialized = TRUE
    /\ url = generateUrlParams("skybox", DEFAULT_CUSTOM_CONFIG)
    /\ InitSession
    /\ InitVideo
    /\ InitRun

NextDetect ==
    \/ LoadVideoOf(DetectSizes)
    \/ Set360ModeEnabled

SpecDetect == InitDetect /\ [][NextDetect]_vars

\* ============================================================ properties
AnalysisKinds == {"analysis", "multiview"}
\* a run leaves its loop after the last pass (not through catch)
RunCompletes == runKind \in AnalysisKinds /\ pc = "yield" /\ pc' = "idle"
\* a run ends, through the loop's end or through catch
RunEnds == runKind \in AnalysisKinds /\ runKind' = "none"
\* every view's frameData in a state of either editor
AllFrameData ==
    IF editor = "planar" THEN {frameData}
    ELSE {frameViews[j].frameData : j \in 1..Len(frameViews)}
SampleTimes(fd) == [k \in 1..Len(fd) |-> fd[k].time]

\* C1: while a run awaits the confirmation of its seek to sample time t_i, the
\* seek in flight on the video is that seek (no other seek was issued in the
\* meantime), and the frame scored for t_i is the frame at t_i.
C1_OwnSeekConfirmed ==
    runKind \in AnalysisKinds =>
        /\ (pc = "awaitSeek" => vSeeking /\ vTime = idx * Interval(runFps))
        /\ (pc = "yield" => readFrame = idx * Interval(runFps))

\* C2: from the start of an analysis run to its end the video is paused; no
\* user action starts playback on it.
C2_PausedWhileRunning == runKind \in AnalysisKinds => vPaused

\* C3: the sample numbers the claim names for duration d and rate f: every i
\* in 0..floor(d * f) whose time i / f is at most d
SampleNumbers(d, f) ==
    {i \in 0..((d * f) \div TicksPerSec) : i * TicksPerSec <= d * f}
ExactlyTheSamples(fd, d, f) ==
    /\ Len(fd) = Cardinality(SampleNumbers(d, f))
    /\ {fd[k].time : k \in 1..Len(fd)} = {i * Interval(f) : i \in SampleNumbers(d, f)}
    /\ \A k \in 1..(Len(fd) - 1) : fd[k].time < fd[k + 1].time
RECURSIVE PassesFrom(_, _, _)
\* the sample times of the passes the loop makes from loop variable i on
PassesFrom(i, d, f) ==
    IF LoopContinues(i, TotalFrames(d, f), f, d)
    THEN <<i * Interval(f)>> \o PassesFrom(i + 1, d, f)
    ELSE <<>>
\* C3: a completed analysis run leaves in every view exactly one sample for
\* each i in 0..floor(D * fps) with i / fps <= D, at time i / fps, in strictly
\* increasing time order; all views of the 360 editor end with the same
\* sequence of times; a 2 s video at 6 samples per second gets 13 samples.
C3_CompletedRunSamples ==
    [][RunCompletes =>
        /\ \A fd \in AllFrameData' : ExactlyTheSamples(fd, duration, runFps)
        /\ \A fd1, fd2 \in AllFrameData' : SampleTimes(fd1) = SampleTimes(fd2)
        /\ Len(PassesFrom(0, 2 * TicksPerSec, 6)) = 13]_vars
\* a completed run of the 360 editor that left three samples in every view
C3_Witness ==
    /\ editor = "360" /\ pc = "idle" /\ runResult = "resolved" /\ ~errorLogged
    /\ \A j \in 1..Len(frameViews) : Len(frameViews[j].frameData) = 3

C5_ErrorSurfaced ==
    (pc = "idle" /\ errorLogged /\ runResult /= "none") =>
        /\ progress = 0
        /\ runResult = "rejected"

OnlyThisRun(fd) ==
    /\ \A k \in 1..Len(fd) : fd[k].fresh
    /\ \A k1, k2 \in 1..Len(fd) : fd[k1].time = fd[k2].time => k1 = k2
\* C6: when a run over earlier results completes, each view's frameData holds
\* only the samples of this run: none of an earlier run, no time twice.
C6_RerunReplaces ==
    [][(RunCompletes /\ hadData) =>
          \A fd \in AllFrameData' : fd /= <<>> /\ OnlyThisRun(fd)]_vars
\* a second run of the 360 editor has completed
C6_Witness ==
    /\ editor = "360" /\ hadData /\ pc = "idle" /\ runResult = "resolved" /\ ~errorLogged
    /\ \A j \in 1..Len(frameViews) : Len(frameViews[j].frameData) >= 2

\* Section 4.5 of the specification: the eligible samples of a view
MaxObserved(fd) ==
    CHOOSE m \in {fd[k].variance : k \in 1..Len(fd)} :
        \A k \in 1..Len(fd) : fd[k].variance <= m
Eligible(fd, thr, rngs) ==
    IF fd = <<>> THEN <<>>
    ELSE SelectSeq(fd, LAMBDA s :
            /\ s.variance >= Min(thr, MaxObserved(fd))
            /\ ~\E r \in rngs : /\ r.action = "exclude"
                               /\ r.start <= s.time * PosPerTick
                               /\ s.time * PosPerTick <= r.end)
NoExclude(rngs) == ~\E r \in rngs : r.action = "exclude"
\* the run ended with the alert of an empty selection
NothingToExport == pc = "idle" /\ alerted /\ ~errorLogged

\* C7: the planar export selects exactly the eligible samples (variance >=
\* min(threshold, maximum observed variance), in no exclude range, both ends
\* inclusive); for variances 100, 400, 250, 500 at 0, 1, 2, 3 s, threshold 300
\* and an exclude range 0.5 .. 1.5 s it selects only the sample at 3 s.
C7_PlanarExportSelectsEligible ==
    /\ runKind = "export" => sharpFrames = Eligible(frameData, threshold, ranges)
    /\ (editor = "planar" /\ NothingToExport) =>
            Eligible(frameData, threshold, ranges) = <<>>
    /\ SharpFrames(<<Sample(0, 100), Sample(12, 400), Sample(24, 250), Sample(36, 500)>>,
                   300, {[id |-> 1, start |-> 6 * PosPerTick, end |-> 18 * PosPerTick, action |-> "exclude"]})
          = <<Sample(36, 500)>>

\* C8: for non-empty frameData and any threshold, at least one sample passes
\* variance >= effectiveThreshold: the 'above threshold' counts of the
\* timelines are never 0.
C8_SomeSamplePasses ==
    /\ frameData /= <<>> => FramesAboveThreshold(frameData, threshold) >= 1
    /\ \A j \in 1..Len(frameViews) :
          frameViews[j].frameData /= <<>> => FramesAboveThreshold360(frameViews[j]) >= 1

\* C9: the 360 export selects exactly the eligible samples of the active
\* view; without exclude ranges these are as many as the 360 timeline counts
\* as above threshold for that view.
C9_Export360SelectsEligible ==
    /\ runKind = "export360" =>
          /\ sharpFrames = Eligible(ActiveView.frameData, ActiveView.threshold,
                                    ActiveView.ranges)
          /\ NoExclude(ActiveView.ranges) =>
                Len(sharpFrames) = FramesAboveThreshold360(ActiveView)
    /\ (editor = "360" /\ NothingToExport) =>
          /\ Eligible(ActiveView.frameData, ActiveView.threshold, ActiveView.ranges) = <<>>
          /\ NoExclude(ActiveView.ranges) => FramesAboveThreshold360(ActiveView) = 0

\* C10: the archive of a skybox export of N timestamps has N folders, each
\* holding exactly the six face images.
C10_SkyboxFolderPerTimestamp ==
    (editor = "360" /\ editorMode = "skybox" /\ pc = "idle" /\ saved) =>
        LET folders == {p[1] : p \in zip}
        IN /\ Cardinality(folders) = Len(SharpFrames360(ActiveView))
           /\ \A d \in folders :
                 {p[2] : p \in {q \in zip : q[1] = d}}
                    = {<<"px">>, <<"nx">>, <<"py">>, <<"ny">>, <<"pz">>, <<"nz">>}

\* the timestamps (as formatTime prints them) of the images in a folder of the archive
StampsInFolder(name) == {<<p[2][2], p[2][3]>> : p \in {q \in zip : q[1] = <<name>>}}
StampsOf(fd) == {FormatTime(fd[k].time) : k \in 1..Len(fd)}
\* C11: after a custom-mode export the folder of each view V holds one image
\* for each timestamp eligible for V by V's own frameData, threshold and
\* exclude ranges.
C11_CustomFolderPerViewEligible ==
    (editor = "360" /\ editorMode = "custom" /\ pc = "idle" /\ saved) =>
        \A j \in 1..Len(frameViews) :
            StampsInFolder(frameViews[j].name)
              = StampsOf(Eligible(frameViews[j].frameData, frameViews[j].threshold,
                                  frameViews[j].ranges))

\* C12: every export run that has ended (normally, with nothing to export, or
\* by an error) has left isProcessing false, progress 0 and the video at the
\* position it had before the export.  The sessions of SpecExport begin with
\* the video at position 0 and only exports move it, so that position is 0.
C12_ExportLeavesStateConsistent ==
    (pc = "idle" /\ runResult = "resolved") =>
        /\ ~isProcessing
        /\ progress = 0
        /\ vTime = 0

\* the faces of the views, in order
FacesOf(views) == [j \in 1..Len(views) |-> views[j].face]
\* C13: in every state of the 360 editor, skybox mode has exactly 6 views, one
\* for each of the faces pz, px, nz, nx, py, ny, and custom mode has as many
\* views as customConfig.frameCount, a number in 1..12.
C13_ViewCountMatchesMode ==
    editor = "360" =>
        /\ editorMode = "skybox" =>
              /\ Len(frameViews) = 6
              /\ {FacesOf(frameViews)[j] : j \in 1..Len(frameViews)}
                    = {"pz", "px", "nz", "nx", "py", "ny"}
        /\ editorMode = "custom" =>
              /\ Len(frameViews) = customConfig.frameCount
              /\ customConfig.frameCount \in 1..12

\* the frameCount the page's init effect hands to setCustomConfig, if any
UrlAsksFrameCount == "frameCount" \in DOMAIN parseUrlConfig(url)
\* C14: setCustomConfig with a frameCount outside 1..12 (0, negative, above 12,
\* not a number) is rejected: customConfig and the views there were (those the
\* preceding setEditorMode of the init effect made, if it ran) stay as they are.
C14_InvalidFrameCountRejected ==
    [][(/\ editor = "360" /\ ~initialized /\ initialized'
        /\ UrlAsksFrameCount
        /\ parseUrlConfig(url).frameCount \notin 1..12)
       => /\ customConfig' = customConfig
          /\ frameViews' = IF parseUrlMode(url) /= ""
                           THEN ViewsOfMode(parseUrlMode(url), customConfig)
                           ELSE frameViews]_vars

\* steps of the page's init effect
InitEffect == editor = "360" /\ ~initialized /\ initialized'
\* C15: a change of the custom configuration in custom mode, and every
\* setEditorMode, regenerates the whole view set: afterwards every view has
\* empty frameData, no ranges and the default threshold.  setCustomConfig in
\* skybox mode leaves the six skybox views and their data as they were.
C15_RegeneratedWholesale ==
    [][/\ (editor = "360" /\ customConfig' /= customConfig /\ editorMode' = "custom")
            => ~HoldData(frameViews')
       /\ (SetEditorMode \/ (InitEffect /\ parseUrlMode(url) /= ""))
            => ~HoldData(frameViews')
       /\ (InitEffect /\ DOMAIN parseUrlConfig(url) /= {} /\ editorMode' = "skybox")
            => /\ Len(frameViews') = 6
               /\ frameViews' = frameViews]_vars
\* a configuration change has replaced custom views that held data by seven
\* fresh ones
C15_Witness ==
    /\ editor = "360" /\ editorMode = "custom" /\ discarded
    /\ customConfig.frameCount = 7
    /\ Len(frameViews) = 7
    /\ ~HoldData(frameViews)

\* steps that make the custom views from the configuration
CustomViewsMade ==
    /\ editor = "360" /\ editorMode' = "custom"
    /\ \/ InitEffect /\ parseUrlMode(url) = "custom"
       \/ SetEditorMode
       \/ SetCustomConfig
IsNumber(x) == x /= NaN
\* C16: generateCustomViews(frameCount, rigPitch, startAngle, fov) returns
\* frameCount views; view i (from 0) has yaw (startAngle + i * 360 / frameCount)
\* mod 360, a value in [0, 360), pitch rigPitch and fov fov;
\* generateCustomViews(4, 0, 0, 90) has the yaws 0, 90, 180, 270.
C16_CustomViewsEvenlySpaced ==
    [][(/\ CustomViewsMade
        /\ \A k \in DOMAIN customConfig' : IsNumber(customConfig'[k])
        /\ customConfig'.frameCount >= 0)
       => LET c == customConfig'
              step == (360 * Deg) \div c.frameCount
          IN /\ Len(frameViews') = c.frameCount
             /\ \A j \in 1..Len(frameViews') :
                   /\ frameViews'[j].yaw = (c.startAngle * Deg + (j - 1) * step) % (360 * Deg)
                   /\ frameViews'[j].yaw >= 0
                   /\ frameViews'[j].yaw < 360 * Deg
                   /\ frameViews'[j].pitch = c.rigPitch
                   /\ frameViews'[j].fov = c.fov
             /\ c = [frameCount |-> 4, rigPitch |-> 0, startAngle |-> 0, fov |-> 90]
                  => [j \in 1..4 |-> frameViews'[j].yaw]
                       = <<0, 90 * Deg, 180 * Deg, 270 * Deg>>]_vars

\* the rules of the detection in exact arithmetic
Near2to1(w, h) == 20 * Abs(w - 2 * h) < h
NearPreset(w, h) ==
    \E p \in {7680, 5760, 4096, 3840, 2880, 2048, 1920} :
        Abs(w - p) < 100 /\ Abs(2 * h - p) < 100
InBand(w, h) == 19 * h <= 10 * w /\ 10 * w <= 21 * h
RuleResult(w, h) ==
    IF Near2to1(w, h) /\ NearPreset(w, h) THEN [is360 |-> TRUE, confidence |-> "high"]
    ELSE IF Near2to1(w, h) THEN [is360 |-> TRUE, confidence |-> "medium"]
    ELSE IF InBand(w, h) THEN [is360 |-> TRUE, confidence |-> "low"]
    ELSE [is360 |-> FALSE, confidence |-> "high"]
\* C17: for every width and height the detection result is that of the four
\* rules taken in order: |w/h - 2| < 0.05 near a preset size gives true/high,
\* otherwise |w/h - 2| < 0.05 gives true/medium, otherwise w/h in [1.9, 2.1]
\* gives true/low, otherwise false/high; 3840x1920 is true/high, 1920x1080
\* false/high, 3000x1500 true/medium.
C17_DetectionRulesInOrder ==
    (editor = "360" /\ videoSrc) =>
        /\ detection360Result = RuleResult(videoWidth, videoHeight)
        /\ (videoWidth = 3840 /\ videoHeight = 1920)
              => detection360Result = [is360 |-> TRUE, confidence |-> "high"]
        /\ (videoWidth = 1920 /\ videoHeight = 1080)
              => detection360Result = [is360 |-> FALSE, confidence |-> "high"]
        /\ (videoWidth = 3000 /\ videoHeight = 1500)
              => detection360Result = [is360 |-> TRUE, confidence |-> "medium"]

\* C18: once the user has called set360ModeEnabled(x), is360ModeEnabled is x
\* until the user's next call, whatever detection results arrive in between.
C18_UserToggleWins ==
    (editor = "360" /\ userChoice /= "none") =>
        is360ModeEnabled = (userChoice = "true")

\* the numeric parameters the address carries
NumericParams(q) == {k \in {"frames", "pitch", "angle", "fov"} : q[k] /= <<>>}
\* C19: a session opened at generateUrlParams("custom", c), c a valid
\* configuration, has after its initialisation the mode custom, the
\* configuration c and the views generated from c; once initialised, the
\* address is generateUrlParams of the state: it names the mode, and has
\* frames, pitch, angle and fov in custom mode and none of them in skybox mode.
C19_UrlRoundTrip ==
    [][/\ InitEffect =>
            \A c \in SharedConfigs :
                url = generateUrlParams("custom", c) =>
                    /\ editorMode' = "custom"
                    /\ customConfig' = c
                    /\ frameViews' = createCustomFrameViews(c)
       /\ (editor = "360" /\ initialized') =>
            /\ url' = generateUrlParams(editorMode', customConfig')
            /\ url'.mode = editorMode'
            /\ NumericParams(url') = IF editorMode' = "custom"
                                     THEN {"frames", "pitch", "angle", "fov"}
                                     ELSE {}]_vars
\* a session just opened at the address of a shared configuration
C19_Witness ==
    /\ editor = "360" /\ initialized /\ ~videoSrc
    /\ editorMode = "custom"
    /\ customConfig = [frameCount |-> 12, rigPitch |-> -45, startAngle |-> 345, fov |-> 100]
    /\ Len(frameViews) = 12
    /\ url.pitch = <<"-", "4", "5">>

\* C20: after the initialisation from the address, every setting whose
\* parameter is missing or invalid (unknown mode, text that is no number,
\* frames outside 1..12) has its default (skybox; frameCount 4, rigPitch 0,
\* startAngle 0, fov 90), and the configuration holds numbers only, with
\* frameCount in 1..12.
C20_UrlFallsBackToDefaults ==
    [][InitEffect =>
        /\ url.mode \notin {"skybox", "custom"} => editorMode' = "skybox"
        /\ (url.frames = <<>> \/ parseInt(url.frames) \notin 1..12)
              => customConfig'.frameCount = DEFAULT_CUSTOM_CONFIG.frameCount
        /\ (url.pitch = <<>> \/ ~IsNumber(parseFloat(url.pitch)))
              => customConfig'.rigPitch = DEFAULT_CUSTOM_CONFIG.rigPitch
        /\ (url.angle = <<>> \/ ~IsNumber(parseFloat(url.angle)))
              => customConfig'.startAngle = DEFAULT_CUSTOM_CONFIG.startAngle
        /\ (url.fov = <<>> \/ ~IsNumber(parseFloat(url.fov)))
              => customConfig'.fov = DEFAULT_CUSTOM_CONFIG.fov
        /\ \A k \in DOMAIN customConfig' : IsNumber(customConfig'[k])
        /\ customConfig'.frameCount \in 1..12]_vars

\* C27: the progress reported during an analysis run is a number in 0..100,
\* never decreases within the run, and is 100 exactly when the last sample has
\* been processed.
C27_ProgressIsPercentage ==
    [][/\ runKind' \in AnalysisKinds => progress' \in 0..100
       /\ (runKind \in AnalysisKinds /\ runKind' \in AnalysisKinds) => progress' >= progress
       /\ RunCompletes => progress = 100
       /\ (runKind' \in AnalysisKinds /\ pc' = "yield" /\ progress' = 100)
            => ~LoopContinues(idx' + 1, totalFrames', runFps', duration')]_vars

\* C28: the planar export gives no two of the samples it exports the same
\* archive path, so the archive it saves has as many images as samples were
\* exported.
C28_PlanarPathsDistinct ==
    (editor = "planar" /\ pc = "idle" /\ saved) =>
        LET exported == SharpFrames(frameData, threshold, ranges)
        IN /\ \A a, b \in 1..Len(exported) :
                 a /= b => PlanarPath(exported[a]) /= PlanarPath(exported[b])
           /\ Cardinality(zip) = Len(exported)

\* C26: for each of the six faces of a loaded video, the centre ray of
\* extractPerspectiveView at the face's nominal yaw and pitch is the centre ray
\* of extractCubemapFace for that face.
C26_FaceAnglesAgree ==
    (editor = "360" /\ videoSrc) =>
        \A j \in 1..Len(frameViews) :
            frameViews[j].face /= "none" =>
                PerspectiveCentreRay(frameViews[j].yaw, frameViews[j].pitch)
                  = CubemapCentreRay(frameViews[j].face)

\* C29: in every state of the 360 editor activeFrameViewId is the id of one of
\* the views in frameViews.
C29_ActiveViewExists ==
    editor = "360" =>
        \E j \in 1..Len(frameViews) : frameViews[j].id = activeFrameViewId


\* ------------------------------------------------------------------ C21
\* C21: releasing the pointer after a drag of at least 0.1 s adds exactly one
\* range, from the smaller to the larger end of the drag, and selects it; a
\* shorter drag leaves the list as it was.
C21_DragCreatesRange ==
    [][TimelineMouseUp =>
         LET start == Min(rangeCreationStart, tempRangeEnd)
             end == Max(rangeCreationStart, tempRangeEnd)
         IN IF end - start >= MinRangeLength
            THEN \E r \in ranges' \ ranges :
                    /\ ranges' = ranges \cup {r}
                    /\ r.start = start /\ r.end = end
                    /\ selectedRangeId' = r.id
            ELSE ranges' = ranges]_vars

\* ------------------------------------------------------------------ C22
\* C22: while a creation gesture is under way, no range of an earlier gesture
\* that was never given an action is left in the list.
C22_NoActionRangesDropped ==
    isCreatingRange => \A r \in ranges : r.action /= "null"

\* ------------------------------------------------------------------ C23
\* C23: the selection is always null or the id of a range in the list;
\* clicking a range never leaves the previous selection in place and clearing
\* the list leaves nothing selected.
SelectionInList == selectedRangeId = NoRange \/ \E r \in ranges : r.id = selectedRangeId
C23_SelectionInList ==
    /\ SelectionInList
    /\ [][/\ SelectionInList'
          /\ ClickRange => selectedRangeId' /= selectedRangeId
          /\ ClearAllRanges => selectedRangeId' = NoRange]_vars
\* a second range was drawn and is selected while the first, with its
\* action, is still in the list
C23_Witness ==
    /\ Cardinality(ranges) = 2
    /\ \E r \in ranges : r.id = selectedRangeId
    /\ \E r \in ranges : r.id /= selectedRangeId /\ r.action /= "null"

\* ------------------------------------------------------------------ C24
\* C24: importing a video leaves no samples, no range and no range selection
\* of the previous video, in the session and in every view, and puts the
\* progress and the playback cursor at zero.
C24_LoadVideoResets ==
    [][LoadVideo =>
         /\ frameData' = <<>>
         /\ ranges' = {}
         /\ selectedRangeId' = NoRange
         /\ \A j \in 1..Len(frameViews') :
               frameViews'[j].frameData = <<>> /\ frameViews'[j].ranges = {}
         /\ progress' = 0
         /\ currentTime' = 0]_vars


\* ------------------------------------------------------------------ C25
\* C25: scoring a canvas narrower or lower than 3 pixels signals an error;
\* scoring a canvas of at least 3 by 3 gives a number that is not negative,
\* and 0 for a picture of one colour.
Uniform(cv) == \A i, j \in 1..Len(cv.data) : cv.data[i] = cv.data[j]
C25_ScoreDefined ==
    variance /= NoScore =>
        IF canvas.width < 3 \/ canvas.height < 3
        THEN variance.kind = "throw"
        ELSE /\ variance.kind = "number"
             /\ variance.num >= 0
             /\ Uniform(canvas) => variance.num = 0


\* ------------------------------------------------------------------ C30
\* The passes of a run: it seeks once per timestamp, the timestamps being
\* numbered from 0 to at most floor(D * fps); after each timestamp it scored
\* it yields, and from the yield it seeks again or ends.
RunPasses ==
    /\ (runKind' \in AnalysisKinds /\ pc' = "awaitSeek" /\ pc /= "awaitSeek")
         => /\ idx' = IF pc = "idle" THEN 0 ELSE idx + 1
            /\ idx' <= TotalFrames(duration', runFps')
    /\ (runKind \in AnalysisKinds /\ pc = "awaitSeek" /\ pc' /= "awaitSeek")
         => \/ pc' = "yield" /\ isProcessing' /\ idx' = idx
            \/ pc' = "idle" /\ errorLogged' /\ ~isProcessing'
    /\ (runKind \in AnalysisKinds /\ pc = "yield" /\ pc' /= "yield")
         => \/ pc' = "awaitSeek"
            \/ pc' = "idle" /\ ~isProcessing'
\* the step in which a run returns, in pass idx
RunReturns == runKind \in AnalysisKinds /\ pc /= "idle" /\ pc' = "idle"
\* the seeks a run has issued when it returns: one in each pass, and the one
\* of its finally block if this step assigns video.currentTime
SamplingSeeks == idx + 1
RestoringSeeks == IF vSeeking' /\ vTime' = originalTime THEN 1 ELSE 0

====

